---- MODULE Spec2Model ----
(***************************************************************************)
(* Shift fanout and claim coordination (app/api.py).                       *)
(*                                                                         *)
(* Two request handlers run as coroutines on one event loop:               *)
(*   trigger_fanout(shift_id)   POST /shifts/{shift_id}/fanout             *)
(*   receive_message(msg)       POST /messages/inbound                     *)
(* A handler runs without interruption between two awaits, so every action *)
(* below is one such stretch of a handler: from its start or from the      *)
(* await it was suspended at, up to the next await or its return.          *)
(*                                                                         *)
(* The stores (app/database.py), the notifier (app/notifier.py) and the    *)
(* intent classifier (app/intent.py) are collaborators outside app/api.py; *)
(* they are modelled from the design specification:                        *)
(*   - a store hands out and keeps VALUES: a change made to a fetched      *)
(*     value is visible to other requests once it is put back ("persist"), *)
(*   - a send either completes or fails by raising,                        *)
(*   - the classifier maps a message body to ACCEPT, DECLINE or UNKNOWN.   *)
(***************************************************************************)
EXTENDS Integers, Sequences, FiniteSets, TLC

(***************************************************************************)
(* Bounds of the model.                                                    *)
(***************************************************************************)
\* Number of requests (handler invocations) of one run.
MaxRequests == 3
\* Minutes the clock advances in one Tick.
TickMinutes == 5
\* The clock stops here.
MaxTime == 15

(***************************************************************************)
(* Program constants.                                                      *)
(***************************************************************************)
\* timedelta(minutes=10), the escalation delay.
EscalationMinutes == 10

None == "None"

Requests == 1..MaxRequests

(***************************************************************************)
(* The caregiver store: three caregivers, in insertion order, as loaded by *)
(* the test fixture.  Caregivers are never written by the handlers.        *)
(***************************************************************************)
caregiver_db ==
    << [id |-> "c1", role |-> "RN",  phone |-> "+15551111"],
       [id |-> "c2", role |-> "LPN", phone |-> "+15552222"],
       [id |-> "c3", role |-> "RN",  phone |-> "+15553333"] >>

CaregiverIds == {caregiver_db[i].id : i \in DOMAIN caregiver_db}

Roles == {caregiver_db[i].role : i \in DOMAIN caregiver_db}

\* Sender phones a request may carry: every caregiver's, and one unknown.
Phones == {caregiver_db[i].phone : i \in DOMAIN caregiver_db} \cup {"+19999999"}

\* Shift ids a request may name: the stored shift, and one that does not exist.
RequestShiftIds == {"s1", "s404"}

\* Message bodies, one for each answer of the classifier.
Bodies == {"Yes", "No thank you", "Who is this?"}

VARIABLES
    now,          \* the wall clock, in minutes
    shift_db,     \* shift id -> Shift
    fanout_db,    \* shift id -> ShiftFanoutState (no entry: no state yet)
    pc,           \* request -> where its handler stands
    req,          \* request -> the handler and its arguments
    loc,          \* request -> the handler's local variables across an await
    resp,         \* request -> what the handler answered
    sms_sent,     \* caregiver id -> SMS sends issued (send_sms calls)
    call_sent,    \* caregiver id -> calls issued (place_phone_call calls)
    call_rounds,  \* number of escalation rounds run (line 118 executed)
    classified,   \* requests whose body was handed to the classifier
    send_failed,  \* some send has failed so far
    last_return   \* the state trigger_fanout returned, when its return is the
                  \* latest step taken

vars == << now, shift_db, fanout_db, pc, req, loc, resp, sms_sent, call_sent,
           call_rounds, classified, send_failed, last_return >>

(***************************************************************************)
(* Store: get / put of a key-value store holding values.                   *)
(***************************************************************************)
Has(db, key) == key \in DOMAIN db

Put(db, key, value) ==
    [k \in DOMAIN db \cup {key} |-> IF k = key THEN value ELSE db[k]]

(***************************************************************************)
(* Models (app/models.py).                                                 *)
(***************************************************************************)
\* ShiftFanoutState(shift_id=..., started_at=...) with the defaults.
ShiftFanoutState(shift_id, started_at) ==
    [ shift_id |-> shift_id,
      started_at |-> started_at,
      sms_notified_caregiver_ids |-> << >>,
      call_notified_caregiver_ids |-> << >>,
      claimed_caregiver_id |-> None,
      escalated_to_call |-> FALSE ]

\* Shift, reduced to the fields the handlers read or write.
Shift(id, role_required) ==
    [ id |-> id, role_required |-> role_required, claimed_by_caregiver_id |-> None ]

Range(seq) == {seq[i] : i \in DOMAIN seq}

(***************************************************************************)
(* The classifier: parse_shift_request_message_intent.                     *)
(***************************************************************************)
parse_shift_request_message_intent(body) ==
    CASE body = "Yes" -> "ACCEPT"
      [] body = "No thank you" -> "DECLINE"
      [] OTHER -> "UNKNOWN"

(***************************************************************************)
(* Responses.                                                              *)
(***************************************************************************)
NoState == ShiftFanoutState(None, 0)

NoResponse ==
    [ kind |-> "none", success |-> FALSE, message |-> "", shift_id |-> None,
      claimed_by |-> None ]

\* raise HTTPException(status_code=404, detail=...)
HTTP404(detail) == [NoResponse EXCEPT !.kind = "404", !.message = detail]

\* An exception of a send leaves the handler: the request ends in a 500.
HTTP500 == [NoResponse EXCEPT !.kind = "500"]

\* return state: a 200 whose body is the state, which last_return keeps.
StateResponse == [NoResponse EXCEPT !.kind = "state"]

ShiftClaimResponse(success, message, shift_id, claimed_by) ==
    [NoResponse EXCEPT !.kind = "claim", !.success = success, !.message = message,
                       !.shift_id = shift_id, !.claimed_by = claimed_by]

NoRequest == [op |-> "none", shift_id |-> None, from_phone |-> None, body |-> None]

NoLocals == [state |-> NoState, shift |-> Shift(None, None), caregiver |-> None]

NoReturn == [valid |-> FALSE, shift_id |-> None, state |-> NoState]

(***************************************************************************)
(* Initial state: the stores as the fixture leaves them: one shift, no     *)
(* fanout state, nothing sent, no request started.                         *)
(***************************************************************************)
Init ==
    /\ now = 0
    /\ \E role \in Roles : shift_db = [k \in {"s1"} |-> Shift("s1", role)]
    /\ fanout_db = << >>
    /\ pc = [p \in Requests |-> "new"]
    /\ req = [p \in Requests |-> NoRequest]
    /\ loc = [p \in Requests |-> NoLocals]
    /\ resp = [p \in Requests |-> NoResponse]
    /\ sms_sent = [c \in CaregiverIds |-> 0]
    /\ call_sent = [c \in CaregiverIds |-> 0]
    /\ call_rounds = 0
    /\ classified = {}
    /\ send_failed = FALSE
    /\ last_return = NoReturn

(***************************************************************************)
(* Helpers of trigger_fanout.                                              *)
(***************************************************************************)
\* [c for c in caregiver_db.all() if c.role == shift.role_required]
eligible_caregivers_unfiltered(shift) == caregiver_db

eligible_caregivers(shift) ==
    SelectSeq(caregiver_db, LAMBDA c : c.role = shift.role_required)

\* One notification round over the eligible caregivers, in order: a caregiver
\* whose id is not in `notified` is appended to it and gets a send task
\* (lines 105-109 for SMS, 119-125 for calls).
RECURSIVE NotifyRoundUnguarded(_, _)
NotifyRoundUnguarded(notified, eligible) ==
    IF eligible = << >>
    THEN [notified |-> notified, tasks |-> << >>]
    ELSE LET c == Head(eligible).id
             rest == NotifyRoundUnguarded(Append(notified, c), Tail(eligible))
         IN  [notified |-> rest.notified, tasks |-> << c >> \o rest.tasks]

RECURSIVE NotifyRound(_, _)
NotifyRound(notified, eligible) ==
    IF eligible = << >>
    THEN [notified |-> notified, tasks |-> << >>]
    ELSE LET c == Head(eligible).id
             fresh == c \notin Range(notified)
             rest == NotifyRound(IF fresh THEN Append(notified, c) ELSE notified,
                                 Tail(eligible))
         IN  [ notified |-> rest.notified,
               tasks |-> IF fresh THEN << c >> \o rest.tasks ELSE rest.tasks ]

\* if state.claimed_caregiver_id: (line 93)
ClaimedNever(state) == FALSE

Claimed(state) == state.claimed_caregiver_id # None

\* (now - state.started_at) >= timedelta(minutes=10) and not state.escalated_to_call
EscalationDue(state, t) ==
    (t - state.started_at) >= EscalationMinutes /\ ~state.escalated_to_call

\* state = fanout_db.get(shift_id); if not state: state = ShiftFanoutState(...)
\* (lines 85-87): the stored state, or a new one started at t.
GetOrCreateAlwaysNew(db, shift_id, t) == ShiftFanoutState(shift_id, t)

GetOrCreate(db, shift_id, t) ==
    IF Has(db, shift_id) THEN db[shift_id] ELSE ShiftFanoutState(shift_id, t)

\* The call round of the escalation (lines 119-125): every eligible caregiver
\* not yet in call_notified_caregiver_ids, whether or not an SMS went to them.
CallRoundSkipsSmsNotified(state, eligible) ==
    NotifyRound(state.call_notified_caregiver_ids,
                SelectSeq(eligible,
                          LAMBDA c : c.id \notin Range(state.sms_notified_caregiver_ids)))

CallRound(state, eligible) ==
    NotifyRound(state.call_notified_caregiver_ids, eligible)

\* state.escalated_to_call = True, and the ids the round appended (lines 118, 124).
EscalatedFlagNotSet(state, notified) ==
    [state EXCEPT !.call_notified_caregiver_ids = notified]

Escalated(state, notified) ==
    [state EXCEPT !.escalated_to_call = TRUE,
                  !.call_notified_caregiver_ids = notified]

\* Sends issued for a list of tasks (one per caregiver id in it).
Issue(sent, tasks) ==
    [c \in CaregiverIds |-> sent[c] + (IF c \in Range(tasks) THEN 1 ELSE 0)]

\* The handler of request p returns r.
Return(p, r) ==
    /\ pc' = [pc EXCEPT ![p] = "done"]
    /\ resp' = [resp EXCEPT ![p] = r]
    /\ loc' = [loc EXCEPT ![p] = NoLocals]

\* The handler of request p is suspended at an await, keeping its locals.
Suspend(p, at, locals) ==
    /\ pc' = [pc EXCEPT ![p] = at]
    /\ loc' = [loc EXCEPT ![p] = locals]
    /\ resp' = resp

\* trigger_fanout returns `state`.
ReturnState(p, state) ==
    /\ Return(p, StateResponse)
    /\ last_return' = [valid |-> TRUE, shift_id |-> state.shift_id, state |-> state]

\* Lines 115-132: the escalation check and what follows it, with `state` the
\* handler's local state and `db` the fanout store as the handler left it.
EscalationCheck(p, shift, state, db) ==
    LET round == CallRound(state, eligible_caregivers(shift))
        escalated == Escalated(state, round.notified)
    IN  IF EscalationDue(state, now)
        THEN /\ call_rounds' = call_rounds + 1
             /\ call_sent' = Issue(call_sent, round.tasks)
             /\ IF round.tasks # << >>
                THEN \* await asyncio.gather(*call_tasks)
                     /\ Suspend(p, "call_wait",
                                [loc[p] EXCEPT !.state = escalated, !.shift = shift])
                     /\ fanout_db' = db
                     /\ last_return' = NoReturn
                ELSE /\ fanout_db' = Put(db, shift.id, escalated)
                     /\ ReturnState(p, escalated)
        ELSE /\ UNCHANGED << call_rounds, call_sent >>
             /\ fanout_db' = db
             /\ ReturnState(p, state)

(***************************************************************************)
(* trigger_fanout(shift_id), from its start to its first await or return.  *)
(***************************************************************************)
TriggerFanout(p, shift_id) ==
    /\ pc[p] = "new"
    /\ \A q \in Requests : q < p => pc[q] # "new"
    /\ req' = [req EXCEPT ![p] = [NoRequest EXCEPT !.op = "fanout",
                                                   !.shift_id = shift_id]]
    /\ UNCHANGED << now, shift_db, classified, send_failed >>
    /\ IF ~Has(shift_db, shift_id)
       THEN /\ Return(p, HTTP404("Shift not found"))
            /\ last_return' = NoReturn
            /\ UNCHANGED << fanout_db, sms_sent, call_sent, call_rounds >>
       ELSE LET shift == shift_db[shift_id]
                \* get or create the fanout state; a new one is put at once
                state == GetOrCreate(fanout_db, shift_id, now)
                db == IF Has(fanout_db, shift_id)
                      THEN fanout_db
                      ELSE Put(fanout_db, shift_id, state)
                round == NotifyRound(state.sms_notified_caregiver_ids,
                                     eligible_caregivers(shift))
                marked == [state EXCEPT !.sms_notified_caregiver_ids = round.notified]
            IN  IF Claimed(state)
                THEN \* already claimed: return state
                     /\ fanout_db' = db
                     /\ ReturnState(p, state)
                     /\ UNCHANGED << sms_sent, call_sent, call_rounds >>
                ELSE /\ sms_sent' = Issue(sms_sent, round.tasks)
                     /\ IF round.tasks # << >>
                        THEN \* await asyncio.gather(*sms_tasks)
                             /\ Suspend(p, "sms_wait",
                                        [loc[p] EXCEPT !.state = marked, !.shift = shift])
                             /\ fanout_db' = db
                             /\ last_return' = NoReturn
                             /\ UNCHANGED << call_sent, call_rounds >>
                        ELSE EscalationCheck(p, shift, marked, db)

\* A send of the round raises: the exception leaves gather and the handler.
SendRaises(p) ==
    /\ Return(p, HTTP500)
    /\ send_failed' = TRUE
    /\ last_return' = NoReturn
    /\ UNCHANGED << fanout_db, call_sent, call_rounds >>

(***************************************************************************)
(* trigger_fanout resumed after the SMS round (lines 112-132).             *)
(***************************************************************************)
SmsRoundDone(p) ==
    /\ pc[p] = "sms_wait"
    /\ UNCHANGED << now, shift_db, req, classified, sms_sent >>
    /\ \/ SendRaises(p)
       \/ /\ send_failed' = send_failed
          /\ EscalationCheck(p, loc[p].shift, loc[p].state,
                             Put(fanout_db, loc[p].shift.id, loc[p].state))

(***************************************************************************)
(* trigger_fanout resumed after the call round (lines 128-132).            *)
(***************************************************************************)
CallRoundDone(p) ==
    /\ pc[p] = "call_wait"
    /\ UNCHANGED << now, shift_db, req, classified, sms_sent >>
    /\ \/ SendRaises(p)
       \/ /\ send_failed' = send_failed
          /\ fanout_db' = Put(fanout_db, loc[p].shift.id, loc[p].state)
          /\ ReturnState(p, loc[p].state)
          /\ UNCHANGED << call_sent, call_rounds >>

(***************************************************************************)
(* receive_message(msg), from its start to the await of the classifier or  *)
(* its return (lines 137-158).                                             *)
(***************************************************************************)
\* next((c for c in caregiver_db.all() if c.phone == from_phone), None)
FindCaregiverFirst(from_phone) == Head(caregiver_db).id

FindCaregiver(from_phone) ==
    LET found == SelectSeq(caregiver_db, LAMBDA c : c.phone = from_phone)
    IN  IF found = << >> THEN None ELSE Head(found).id

CaregiverRole(id) ==
    LET found == SelectSeq(caregiver_db, LAMBDA c : c.id = id)
    IN  Head(found).role

\* shift.role_required != caregiver.role (line 149)
NotEligibleNever(shift, caregiver) == FALSE

NotEligible(shift, caregiver) == shift.role_required # CaregiverRole(caregiver)

\* A message answered before the classifier is consulted: its body is never read.
Answered(r) == [r EXCEPT !.body = None]

\* A message of an unknown sender: neither its shift_id nor its body is read.
Unread(r) == [r EXCEPT !.body = None, !.shift_id = None]

ReceiveMessage(p, from_phone, shift_id, body) ==
    /\ pc[p] = "new"
    /\ \A q \in Requests : q < p => pc[q] # "new"
    /\ last_return' = NoReturn
    /\ UNCHANGED << now, shift_db, fanout_db, sms_sent, call_sent, call_rounds,
                    send_failed >>
    /\ LET msg == [op |-> "message", shift_id |-> shift_id,
                   from_phone |-> from_phone, body |-> body]
           caregiver == FindCaregiver(from_phone)
       IN  IF caregiver = None
           THEN /\ Return(p, HTTP404("Caregiver not found"))
                /\ req' = [req EXCEPT ![p] = Unread(msg)]
                /\ classified' = classified
           ELSE IF ~Has(shift_db, shift_id)
           THEN /\ Return(p, HTTP404("Shift not found"))
                /\ req' = [req EXCEPT ![p] = Answered(msg)]
                /\ classified' = classified
           ELSE LET shift == shift_db[shift_id]
                IN  IF NotEligible(shift, caregiver)
                    THEN /\ Return(p, ShiftClaimResponse(FALSE,
                                          "Not eligible for this shift role",
                                          shift.id, shift.claimed_by_caregiver_id))
                         /\ req' = [req EXCEPT ![p] = Answered(msg)]
                         /\ classified' = classified
                    ELSE \* await parse_shift_request_message_intent(msg.body)
                         /\ Suspend(p, "intent_wait",
                                    [loc[p] EXCEPT !.shift = shift,
                                                   !.caregiver = caregiver])
                         /\ req' = [req EXCEPT ![p] = msg]
                         /\ classified' = classified \cup {p}

\* fanout_state.claimed_caregiver_id is not None (line 168)
AlreadyClaimedNever(fanout_state) == FALSE

AlreadyClaimed(fanout_state) == fanout_state.claimed_caregiver_id # None

(***************************************************************************)
(* receive_message resumed with the classifier's answer (lines 160-204).   *)
(* The ACCEPT branch holds no await: it is one step.                       *)
(***************************************************************************)
IntentParsed(p) ==
    /\ pc[p] = "intent_wait"
    /\ last_return' = NoReturn
    /\ UNCHANGED << now, req, sms_sent, call_sent, call_rounds, classified,
                    send_failed >>
    /\ LET intent == parse_shift_request_message_intent(req[p].body)
           shift == loc[p].shift
           caregiver == loc[p].caregiver
       IN  CASE intent = "ACCEPT" ->
                  LET fanout_state == IF Has(fanout_db, shift.id)
                                      THEN fanout_db[shift.id]
                                      ELSE ShiftFanoutState(shift.id, now)
                      db == IF Has(fanout_db, shift.id)
                            THEN fanout_db
                            ELSE Put(fanout_db, shift.id, fanout_state)
                  IN  IF AlreadyClaimed(fanout_state)
                      THEN /\ fanout_db' = db
                           /\ shift_db' = shift_db
                           /\ Return(p, ShiftClaimResponse(FALSE,
                                             "Shift already claimed", shift.id,
                                             fanout_state.claimed_caregiver_id))
                      ELSE /\ fanout_db' = Put(db, shift.id,
                                  [fanout_state EXCEPT !.claimed_caregiver_id = caregiver])
                           /\ shift_db' = Put(shift_db, shift.id,
                                  [shift EXCEPT !.claimed_by_caregiver_id = caregiver])
                           /\ Return(p, ShiftClaimResponse(TRUE,
                                             "Shift successfully claimed!", shift.id,
                                             caregiver))
             [] intent = "DECLINE" ->
                  /\ UNCHANGED << fanout_db, shift_db >>
                  /\ Return(p, ShiftClaimResponse(FALSE, "Shift declined", shift.id,
                                                  shift.claimed_by_caregiver_id))
             [] OTHER ->
                  /\ UNCHANGED << fanout_db, shift_db >>
                  /\ Return(p, ShiftClaimResponse(FALSE, "Intent unknown", shift.id,
                                                  shift.claimed_by_caregiver_id))

\* The clock advances.
Tick ==
    /\ now + TickMinutes <= MaxTime
    /\ now' = now + TickMinutes
    /\ last_return' = NoReturn
    /\ UNCHANGED << shift_db, fanout_db, pc, req, loc, resp, sms_sent, call_sent,
                    call_rounds, classified, send_failed >>

Next ==
    \/ \E p \in Requests, shift_id \in RequestShiftIds : TriggerFanout(p, shift_id)
    \/ \E p \in Requests : SmsRoundDone(p)
    \/ \E p \in Requests : CallRoundDone(p)
    \/ \E p \in Requests, from_phone \in Phones, shift_id \in RequestShiftIds,
          body \in Bodies : ReceiveMessage(p, from_phone, shift_id, body)
    \/ \E p \in Requests : IntentParsed(p)
    \/ Tick

Spec == Init /\ [][Next]_vars

(***************************************************************************)
(* Inbound messages alone: any number of receive_message requests in       *)
(* flight at once, answered in any order, and the clock.                   *)
(***************************************************************************)
NextMessages ==
    \/ \E p \in Requests, from_phone \in Phones, shift_id \in RequestShiftIds,
          body \in Bodies : ReceiveMessage(p, from_phone, shift_id, body)
    \/ \E p \in Requests : IntentParsed(p)
    \/ Tick

SpecMessages == Init /\ [][NextMessages]_vars

(***************************************************************************)
(* Definitions the properties share.                                       *)
(***************************************************************************)
\* The ACCEPT messages answered so far.
AcceptsAnswered ==
    { p \in Requests : /\ pc[p] = "done"
                       /\ req[p].op = "message"
                       /\ p \in classified
                       /\ parse_shift_request_message_intent(req[p].body) = "ACCEPT" }

\* The trigger_fanout requests on an existing shift answered so far.
FanoutsAnswered ==
    { p \in Requests : /\ pc[p] = "done"
                       /\ req[p].op = "fanout"
                       /\ Has(shift_db, req[p].shift_id) }

NoDuplicates(seq) == \A i, j \in DOMAIN seq : seq[i] = seq[j] => i = j

SendsUnchanged == sms_sent' = sms_sent /\ call_sent' = call_sent

\* This step is the start of request p, a trigger_fanout for shift s.
FanoutStarts(p, s) ==
    pc[p] = "new" /\ pc'[p] # "new" /\ req'[p].op = "fanout" /\ req'[p].shift_id = s

\* This step is the start of request p, a receive_message.
MessageStarts(p) ==
    pc[p] = "new" /\ pc'[p] # "new" /\ req'[p].op = "message"

(***************************************************************************)
(* C1.  Of the ACCEPT messages of distinct eligible caregivers on one      *)
(* shift, in flight together and answered in any order, exactly one is     *)
(* answered success=true, naming its sender; every other one is answered   *)
(* success=false, "Shift already claimed", claimed_by = that winner.       *)
(***************************************************************************)
C1_ExactlyOneAcceptWins ==
    AcceptsAnswered # {} =>
        \E w \in AcceptsAnswered :
            /\ resp[w].kind = "claim"
            /\ resp[w].success
            /\ resp[w].claimed_by = FindCaregiver(req[w].from_phone)
            /\ \A p \in AcceptsAnswered \ {w} :
                  /\ resp[p].kind = "claim"
                  /\ ~resp[p].success
                  /\ resp[p].message = "Shift already claimed"
                  /\ resp[p].claimed_by = resp[w].claimed_by

\* Request 1 arrived first and was answered "already claimed" by the sender of
\* request 2: both were waiting for the classifier, and 2 was resumed first.
C1_Witness ==
    /\ {1, 2} \subseteq AcceptsAnswered
    /\ req[1].from_phone # req[2].from_phone
    /\ resp[2].success
    /\ ~resp[1].success
    /\ resp[1].claimed_by = FindCaregiver(req[2].from_phone)

(***************************************************************************)
(* C2.  Once claimed_by of a shift is set, on the Shift or on its fanout   *)
(* state, no step changes it to another caregiver or back to absent.       *)
(***************************************************************************)
C2_ClaimedByNeverChanges ==
    [][ \A s \in DOMAIN shift_db :
          /\ shift_db[s].claimed_by_caregiver_id # None =>
                shift_db'[s].claimed_by_caregiver_id = shift_db[s].claimed_by_caregiver_id
          /\ (Has(fanout_db, s) /\ fanout_db[s].claimed_caregiver_id # None) =>
                fanout_db'[s].claimed_caregiver_id = fanout_db[s].claimed_caregiver_id
      ]_vars

(***************************************************************************)
(* C3.  Whatever the interleaving of trigger_fanout requests, a caregiver  *)
(* is sent at most one SMS and at most one call for the shift.  Stated for *)
(* the runs in which no send has failed, so that only concurrency is left  *)
(* to explain a second send.                                               *)
(***************************************************************************)
C3_AtMostOneSendEach ==
    ~send_failed => \A c \in CaregiverIds : sms_sent[c] <= 1 /\ call_sent[c] <= 1

(***************************************************************************)
(* C4.  A trigger_fanout that starts right after another one on the same   *)
(* shift has returned, with no time elapsed and no other step in between,  *)
(* returns the same state, issues no send and leaves the store as it is.   *)
(***************************************************************************)
C4_IdempotentTrigger ==
    [][ \A p \in Requests, s \in RequestShiftIds :
          (last_return.valid /\ last_return.shift_id = s /\ FanoutStarts(p, s)) =>
              /\ pc'[p] = "done"
              /\ resp'[p] = StateResponse
              /\ last_return' = last_return
              /\ fanout_db' = fanout_db
              /\ SendsUnchanged
      ]_vars

\* Requests 1 and 2 are the only ones so far, both trigger_fanout answered with
\* a state at time 0, and every SMS went out once: 2 ran after 1 had returned.
C4_Witness ==
    /\ FanoutsAnswered = {1, 2}
    /\ \A p \in Requests \ {1, 2} : pc[p] = "new"
    /\ resp[1] = StateResponse /\ resp[2] = StateResponse
    /\ last_return.valid
    /\ now = 0
    /\ \E c \in CaregiverIds : sms_sent[c] = 1
    /\ \A c \in CaregiverIds : sms_sent[c] <= 1

(***************************************************************************)
(* C5.  A trigger_fanout on a shift whose stored fanout state is claimed   *)
(* returns that state, leaves the store as it is and issues no send,       *)
(* whatever the time elapsed since started_at.                             *)
(***************************************************************************)
C5_ClaimedFanoutIsInert ==
    [][ \A p \in Requests, s \in RequestShiftIds :
          (/\ Has(fanout_db, s)
           /\ fanout_db[s].claimed_caregiver_id # None
           /\ FanoutStarts(p, s)) =>
              /\ pc'[p] = "done"
              /\ resp'[p] = StateResponse
              /\ last_return'.valid
              /\ last_return'.state = fanout_db[s]
              /\ fanout_db' = fanout_db
              /\ SendsUnchanged
              /\ call_rounds' = call_rounds
      ]_vars

\* A trigger_fanout has just returned a claimed state that was never escalated,
\* although the escalation delay has passed.
C5_Witness ==
    /\ last_return.valid
    /\ last_return.state.claimed_caregiver_id # None
    /\ ~last_return.state.escalated_to_call
    /\ now - last_return.state.started_at >= EscalationMinutes

(***************************************************************************)
(* C6.  While a shift is unclaimed: its fanout state is escalated only     *)
(* when ten minutes have passed since started_at; a trigger_fanout that    *)
(* returns at or after ten minutes returns it escalated; once escalated it *)
(* stays escalated; and not more than one call round is ever dispatched.   *)
(***************************************************************************)
Unclaimed(s) ==
    /\ shift_db[s].claimed_by_caregiver_id = None
    /\ Has(fanout_db, s) => fanout_db[s].claimed_caregiver_id = None

C6_EscalatesOnceAtTenMinutes ==
    [][ \A s \in DOMAIN fanout_db :
          Unclaimed(s) =>
            /\ fanout_db'[s].escalated_to_call =>
                  now' - fanout_db'[s].started_at >= EscalationMinutes
            /\ fanout_db[s].escalated_to_call => fanout_db'[s].escalated_to_call
            /\ (/\ last_return'.valid
                /\ last_return'.shift_id = s
                /\ now' - last_return'.state.started_at >= EscalationMinutes) =>
                  last_return'.state.escalated_to_call
            /\ call_rounds' <= 1
      ]_vars

(***************************************************************************)
(* C7.  Every identity in sms_notified or call_notified of a shift, in the *)
(* store or in a handler's hands, is a caregiver whose role is the shift's *)
(* role_required, and no other caregiver is ever sent an SMS or a call.    *)
(***************************************************************************)
HasRequiredRole(c, s) == CaregiverRole(c) = shift_db[s].role_required

NotifiedIn(state) ==
    Range(state.sms_notified_caregiver_ids) \cup Range(state.call_notified_caregiver_ids)

C7_OnlyEligibleNotified ==
    /\ \A s \in DOMAIN fanout_db :
          \A c \in NotifiedIn(fanout_db[s]) : HasRequiredRole(c, s)
    /\ \A p \in Requests :
          pc[p] \in {"sms_wait", "call_wait"} =>
              \A c \in NotifiedIn(loc[p].state) : HasRequiredRole(c, req[p].shift_id)
    /\ \A c \in CaregiverIds :
          (sms_sent[c] > 0 \/ call_sent[c] > 0) => HasRequiredRole(c, "s1")

\* Both rounds have been persisted for a shift, and a caregiver of another
\* role has not been reached.
C7_Witness ==
    /\ Has(fanout_db, "s1")
    /\ fanout_db["s1"].sms_notified_caregiver_ids # << >>
    /\ fanout_db["s1"].call_notified_caregiver_ids # << >>
    /\ \E c \in CaregiverIds :
          ~HasRequiredRole(c, "s1") /\ sms_sent[c] = 0 /\ call_sent[c] = 0

(***************************************************************************)
(* C8.  No step removes an identity from the stored sms_notified or        *)
(* call_notified of a shift, and neither list ever holds an identity       *)
(* twice.                                                                  *)
(***************************************************************************)
C8_NotifiedOnlyGrow ==
    [][ \A s \in DOMAIN fanout_db :
          /\ Range(fanout_db[s].sms_notified_caregiver_ids)
                \subseteq Range(fanout_db'[s].sms_notified_caregiver_ids)
          /\ Range(fanout_db[s].call_notified_caregiver_ids)
                \subseteq Range(fanout_db'[s].call_notified_caregiver_ids)
          /\ NoDuplicates(fanout_db'[s].sms_notified_caregiver_ids)
          /\ NoDuplicates(fanout_db'[s].call_notified_caregiver_ids)
      ]_vars

(***************************************************************************)
(* C9.  A failed send does not abort its trigger_fanout: every             *)
(* trigger_fanout on an existing shift that has ended has returned the     *)
(* fanout state, and what it marked notified is in the store.              *)
(***************************************************************************)
C9_SendFailureIsIsolated ==
    \A p \in FanoutsAnswered :
        /\ resp[p].kind = "state"
        /\ \A c \in CaregiverIds :
              sms_sent[c] > 0 =>
                  c \in Range(fanout_db[req[p].shift_id].sms_notified_caregiver_ids)

(***************************************************************************)
(* C10.  A message of a known caregiver whose role is not the role the     *)
(* (existing) shift requires is answered at once with success=false and    *)
(* the not-eligible reason, whatever its body: the classifier is not       *)
(* consulted, no store changes (no fanout state is created), nothing is    *)
(* sent.                                                                   *)
(***************************************************************************)
C10_IneligibleRejectedUnclassified ==
    [][ \A p \in Requests :
          (/\ MessageStarts(p)
           /\ FindCaregiver(req'[p].from_phone) # None
           /\ Has(shift_db, req'[p].shift_id)
           /\ CaregiverRole(FindCaregiver(req'[p].from_phone))
                 # shift_db[req'[p].shift_id].role_required) =>
              /\ pc'[p] = "done"
              /\ resp'[p].kind = "claim"
              /\ ~resp'[p].success
              /\ resp'[p].message = "Not eligible for this shift role"
              /\ p \notin classified'
              /\ shift_db' = shift_db
              /\ fanout_db' = fanout_db
              /\ SendsUnchanged
      ]_vars

\* A caregiver of another role has been answered "not eligible" on a shift
\* that has no fanout state.
C10_Witness ==
    \E p \in Requests :
        /\ pc[p] = "done"
        /\ req[p].op = "message"
        /\ FindCaregiver(req[p].from_phone) # None
        /\ Has(shift_db, req[p].shift_id)
        /\ CaregiverRole(FindCaregiver(req[p].from_phone))
              # shift_db[req[p].shift_id].role_required
        /\ resp[p].message = "Not eligible for this shift role"
        /\ p \notin classified
        /\ ~Has(fanout_db, req[p].shift_id)

(***************************************************************************)
(* C11.  A message classified DECLINE or UNKNOWN changes neither store (no *)
(* fanout state is created, no claimed_by is set or cleared), is answered  *)
(* success=false, and its answer names the claimant the shift has at that  *)
(* moment.                                                                 *)
(***************************************************************************)
\* This step answers request p, a message the classifier did not read as ACCEPT.
DeclineAnswered(p) ==
    /\ pc[p] = "intent_wait"
    /\ pc'[p] = "done"
    /\ parse_shift_request_message_intent(req[p].body) \in {"DECLINE", "UNKNOWN"}

C11_DeclineIsInertAndCurrent ==
    [][ \A p \in Requests :
          DeclineAnswered(p) =>
              /\ shift_db' = shift_db
              /\ fanout_db' = fanout_db
              /\ resp'[p].kind = "claim"
              /\ ~resp'[p].success
              /\ resp'[p].claimed_by
                    = shift_db[req[p].shift_id].claimed_by_caregiver_id
      ]_vars

(***************************************************************************)
(* C12.  A message whose sender phone belongs to no caregiver, and a       *)
(* message or a trigger_fanout that names a shift that does not exist, end *)
(* in a 404, which is no claim response, and change nothing: no store, no  *)
(* send, no classification.                                                *)
(***************************************************************************)
KnownPhone(phone) == \E i \in DOMAIN caregiver_db : caregiver_db[i].phone = phone

NothingChanges ==
    /\ shift_db' = shift_db
    /\ fanout_db' = fanout_db
    /\ SendsUnchanged
    /\ call_rounds' = call_rounds
    /\ classified' = classified

C12_NotFoundChangesNothing ==
    [][ \A p \in Requests :
          (\/ /\ MessageStarts(p)
              /\ \/ ~KnownPhone(req'[p].from_phone)
                 \/ req'[p].shift_id \notin DOMAIN shift_db
           \/ \E s \in RequestShiftIds \ DOMAIN shift_db : FanoutStarts(p, s)) =>
              /\ pc'[p] = "done"
              /\ resp'[p].kind = "404"
              /\ ~resp'[p].success
              /\ NothingChanges
      ]_vars

\* The three not-found cases have all been answered, and no fanout state exists.
C12_Witness ==
    /\ \E p \in Requests :
          /\ req[p].op = "message" /\ ~KnownPhone(req[p].from_phone)
          /\ resp[p] = HTTP404("Caregiver not found")
    /\ \E p \in Requests :
          /\ req[p].op = "message" /\ KnownPhone(req[p].from_phone)
          /\ req[p].shift_id \notin DOMAIN shift_db
          /\ resp[p] = HTTP404("Shift not found")
    /\ \E p \in Requests :
          /\ req[p].op = "fanout" /\ req[p].shift_id \notin DOMAIN shift_db
          /\ resp[p] = HTTP404("Shift not found")
    /\ fanout_db = << >>
    /\ \A c \in CaregiverIds : sms_sent[c] = 0

(***************************************************************************)
(* C13.  Once a shift is claimed, no step issues an SMS or a call for it,  *)
(* not even the rest of a trigger_fanout that was suspended in its SMS     *)
(* round when the claim was made.                                          *)
(***************************************************************************)
C13_NoSendAfterClaim ==
    [][ (\E s \in DOMAIN shift_db : shift_db[s].claimed_by_caregiver_id # None) =>
            SendsUnchanged
      ]_vars

(***************************************************************************)
(* C14.  The fanout state of a shift is created with started_at = now, is  *)
(* never removed, and its started_at never changes afterwards, in the      *)
(* store and in the state any suspended trigger_fanout holds.              *)
(***************************************************************************)
C14_StartedAtSetOnce ==
    [][ \A s \in RequestShiftIds :
          /\ Has(fanout_db, s) =>
                /\ Has(fanout_db', s)
                /\ fanout_db'[s].started_at = fanout_db[s].started_at
          /\ (~Has(fanout_db, s) /\ Has(fanout_db', s)) =>
                fanout_db'[s].started_at = now
          /\ \A p \in Requests :
                (pc'[p] \in {"sms_wait", "call_wait"} /\ req'[p].shift_id = s) =>
                    /\ Has(fanout_db', s)
                    /\ loc'[p].state.started_at = fanout_db'[s].started_at
      ]_vars

\* A state created after time 0 has since been claimed and returned by a later
\* trigger_fanout, at a later time, with the started_at it was created with.
C14_Witness ==
    /\ Has(fanout_db, "s1")
    /\ fanout_db["s1"].started_at > 0
    /\ now > fanout_db["s1"].started_at
    /\ fanout_db["s1"].claimed_caregiver_id # None
    /\ last_return.valid
    /\ last_return.state.started_at = fanout_db["s1"].started_at

(***************************************************************************)
(* C15.  An ACCEPT of an eligible caregiver that finds no fanout state     *)
(* creates it (started_at = now, nobody notified), claims it and the Shift *)
(* for the sender and is answered success; from then on no step sends      *)
(* anything or marks anybody notified, the claim stays, and every          *)
(* trigger_fanout returns the stored state at once.                        *)
(***************************************************************************)
\* The fanout state of s is claimed, nobody is marked notified, nothing was sent.
ClaimedBeforeAnyFanout(s) ==
    /\ Has(fanout_db, s)
    /\ fanout_db[s].claimed_caregiver_id # None
    /\ fanout_db[s].sms_notified_caregiver_ids = << >>
    /\ fanout_db[s].call_notified_caregiver_ids = << >>
    /\ ~fanout_db[s].escalated_to_call
    /\ \A c \in CaregiverIds : sms_sent[c] = 0 /\ call_sent[c] = 0

C15_AcceptWithoutFanout ==
    [][ \A s \in DOMAIN shift_db :
          /\ \A p \in Requests :
                (/\ pc[p] = "intent_wait"
                 /\ pc'[p] = "done"
                 /\ req[p].shift_id = s
                 /\ parse_shift_request_message_intent(req[p].body) = "ACCEPT"
                 /\ ~Has(fanout_db, s)) =>
                    /\ resp'[p].kind = "claim"
                    /\ resp'[p].success
                    /\ resp'[p].claimed_by = FindCaregiver(req[p].from_phone)
                    /\ Has(fanout_db', s)
                    /\ fanout_db'[s] =
                          [ShiftFanoutState(s, now) EXCEPT
                              !.claimed_caregiver_id = FindCaregiver(req[p].from_phone)]
                    /\ shift_db'[s].claimed_by_caregiver_id
                          = FindCaregiver(req[p].from_phone)
                    /\ SendsUnchanged
          /\ ClaimedBeforeAnyFanout(s) =>
                /\ fanout_db' = fanout_db
                /\ SendsUnchanged
                /\ \A p \in Requests :
                      FanoutStarts(p, s) =>
                          /\ pc'[p] = "done"
                          /\ resp'[p] = StateResponse
                          /\ last_return'.state = fanout_db[s]
      ]_vars

\* A shift claimed before any trigger_fanout has since, ten minutes later, been
\* returned by a trigger_fanout: nobody notified, nothing sent.
C15_Witness ==
    /\ ClaimedBeforeAnyFanout("s1")
    /\ last_return.valid
    /\ last_return.state = fanout_db["s1"]
    /\ now - fanout_db["s1"].started_at >= EscalationMinutes

(***************************************************************************)
(* C16.  Whenever no handler is in the middle of a step, the claimed_by of *)
(* a Shift and of its fanout state agree: both absent (or no fanout state  *)
(* yet), or both the same caregiver.                                       *)
(***************************************************************************)
C16_ClaimMirrored ==
    \A s \in DOMAIN shift_db :
        shift_db[s].claimed_by_caregiver_id =
            (IF Has(fanout_db, s) THEN fanout_db[s].claimed_caregiver_id ELSE None)

(***************************************************************************)
(* C17.  Over the whole life of a shift at most one ACCEPT is answered     *)
(* success; every other ACCEPT, a replay by the claimant included, is      *)
(* answered "Shift already claimed" with the claimant in claimed_by, and   *)
(* an ACCEPT answered so changes no store.                                 *)
(***************************************************************************)
AcceptsWon == {p \in AcceptsAnswered : resp[p].success}

C17_SuccessAtMostOnce ==
    [][ /\ Cardinality(AcceptsWon') <= 1
        /\ \A p \in AcceptsAnswered' \ AcceptsWon' :
              /\ resp'[p].message = "Shift already claimed"
              /\ resp'[p].claimed_by \in CaregiverIds
        /\ \A p \in Requests :
              (p \in AcceptsAnswered' \ AcceptsWon' /\ pc[p] = "intent_wait") =>
                  shift_db' = shift_db /\ fanout_db' = fanout_db
      ]_vars

(***************************************************************************)
(* C18.  Every escalation round calls every eligible caregiver, whether or *)
(* not an SMS went to them before: an escalated state, in the store, in a  *)
(* handler's hands or returned, has the eligible caregivers, all of them,  *)
(* in call_notified and in sms_notified, and each eligible caregiver has   *)
(* been called once per round.                                             *)
(***************************************************************************)
EligibleIds(s) == {c \in CaregiverIds : HasRequiredRole(c, s)}

AllNotified(state) ==
    /\ Range(state.call_notified_caregiver_ids) = EligibleIds(state.shift_id)
    /\ Range(state.sms_notified_caregiver_ids) = EligibleIds(state.shift_id)

C18_EscalationCallsAllEligible ==
    /\ \A s \in DOMAIN fanout_db :
          fanout_db[s].escalated_to_call => AllNotified(fanout_db[s])
    /\ \A p \in Requests : pc[p] = "call_wait" => AllNotified(loc[p].state)
    /\ (last_return.valid /\ last_return.state.escalated_to_call) =>
          AllNotified(last_return.state)
    /\ \A c \in EligibleIds("s1") : call_sent[c] = call_rounds

\* A trigger_fanout has just returned an unclaimed, escalated state after the
\* only escalation round, in which no send failed.
C18_Witness ==
    /\ last_return.valid
    /\ last_return.state.escalated_to_call
    /\ last_return.state.claimed_caregiver_id = None
    /\ fanout_db["s1"] = last_return.state
    /\ call_rounds = 1
    /\ ~send_failed

(***************************************************************************)
(* C19.  A claimed_by, on a Shift, on a fanout state or in a success       *)
(* answer, always names a caregiver of the store whose role is the role    *)
(* the shift requires.                                                     *)
(***************************************************************************)
EligibleClaimant(c, s) == c \in CaregiverIds /\ HasRequiredRole(c, s)

C19_ClaimantIsEligible ==
    /\ \A s \in DOMAIN shift_db :
          shift_db[s].claimed_by_caregiver_id # None =>
              EligibleClaimant(shift_db[s].claimed_by_caregiver_id, s)
    /\ \A s \in DOMAIN fanout_db :
          fanout_db[s].claimed_caregiver_id # None =>
              EligibleClaimant(fanout_db[s].claimed_caregiver_id, s)
    /\ \A p \in Requests :
          resp[p].success => EligibleClaimant(resp[p].claimed_by, resp[p].shift_id)

\* The shift is claimed, and both a caregiver of another role and an unknown
\* sender have been turned away.
C19_Witness ==
    /\ shift_db["s1"].claimed_by_caregiver_id # None
    /\ \E p \in Requests : resp[p].message = "Not eligible for this shift role"
    /\ \E p \in Requests : resp[p] = HTTP404("Caregiver not found")

(***************************************************************************)
(* C20.  Calls belong to the escalation and come after the SMS round: a    *)
(* state that is not escalated has nobody in call_notified, whoever is in  *)
(* call_notified is in sms_notified, and a caregiver was called only after *)
(* an escalation round and after an SMS to them.                           *)
(***************************************************************************)
CallsFollowSms(state) ==
    /\ ~state.escalated_to_call => state.call_notified_caregiver_ids = << >>
    /\ Range(state.call_notified_caregiver_ids)
          \subseteq Range(state.sms_notified_caregiver_ids)

C20_CallsOnlyOnEscalation ==
    /\ \A s \in DOMAIN fanout_db : CallsFollowSms(fanout_db[s])
    /\ \A p \in Requests :
          pc[p] \in {"sms_wait", "call_wait"} => CallsFollowSms(loc[p].state)
    /\ last_return.valid => CallsFollowSms(last_return.state)
    /\ \A c \in CaregiverIds :
          call_sent[c] > 0 => (sms_sent[c] > 0 /\ call_rounds > 0)

\* A trigger_fanout is suspended in its call round, holding an escalated state
\* with its calls marked, while the stored state is not escalated and has only
\* the SMS marks.
C20_Witness ==
    /\ \E p \in Requests :
          /\ pc[p] = "call_wait"
          /\ loc[p].state.call_notified_caregiver_ids # << >>
    /\ Has(fanout_db, "s1")
    /\ ~fanout_db["s1"].escalated_to_call
    /\ fanout_db["s1"].sms_notified_caregiver_ids # << >>
====
